---- MODULE Spec2Model ----
(***************************************************************************)
(* ArcCore-Prime (acOS): the guardian's gates, the collapse engine and the *)
(* memory tree, modelled from src/src/*.py.                                *)
(*                                                                         *)
(* Python values are modelled as follows.                                  *)
(*   - a dict is a function whose DOMAIN is the set of keys it holds, so a *)
(*     missing key and a key holding None are different things;            *)
(*   - a str is a sequence of tokens: the characters of user text are one  *)
(*     token each, a literal of the source is one token;                   *)
(*   - None is NoneText where a str is expected and NoneLevel where a      *)
(*     compression level is expected;                                      *)
(*   - dict objects live in a heap (a sequence of dicts, an object's       *)
(*     address is its index); a children list holds addresses.             *)
(***************************************************************************)
EXTENDS Integers, Sequences, FiniteSets, TLC

VARIABLES
    heap,         \* the dict objects alive: the caller's tree and the result
    inRoot,       \* address of the node last passed to collapse_state
    outRoot,      \* address of the node it returned (0: nothing returned)
    callDepth,    \* the depth argument of that call
    outcome,      \* "init" | "returned" | "TypeError"
    calls,        \* number of collapse_state calls made
    gateLog,      \* the guardian.gate calls of the last collapse_state call
    guardianKind, \* what ACCollapseEngine.guardian is bound to
    gateArgs,     \* gate_node: the arguments of the call
    gateResult,   \* gate_node: the (ok, reason) it returned, <<>> before
    root,         \* ArcMemorySystem.root: the memory tree of HarmonicNodes
    created,      \* number of HarmonicNodes created so far
    reply,        \* what the last shell / interpreter / memory call returned
    ingested,     \* the arguments of the last ingest_interaction call, <<>> before
    pipeline,     \* the text and the steps of the last interpret call
    recTree,      \* reconstruction: the tree given
    recOp,        \* reconstruction: "none" | "full" | "thread"
    recCycle,     \* reconstruction: the target cycle of a thread call
    recOut,       \* reconstruction: the text (full) or the lines (thread) returned
    recCalls,     \* reconstruction: number of traversals made of the tree
    sigilText,    \* SigilEngine: the value given to evaluate
    sigilScores   \* SigilEngine: the scores evaluate returned for it, in order

vars == <<heap, inRoot, outRoot, callDepth, outcome, calls, gateLog,
          guardianKind, gateArgs, gateResult, root, created, reply,
          ingested, pipeline, recTree, recOp, recCycle, recOut, recCalls,
          sigilText, sigilScores>>

collapseVars == <<heap, inRoot, outRoot, callDepth, outcome, calls, gateLog,
                  guardianKind>>
gateVars == <<gateArgs, gateResult>>
memoryVars == <<root, created, reply, ingested, pipeline>>
reconstructVars == <<recTree, recOp, recCycle, recOut, recCalls>>
sigilVars == <<sigilText, sigilScores>>

----------------------------------------------------------------------------
(* Bounds of the model *)

MaxCalls == 2
MaxNodes == 3

----------------------------------------------------------------------------
(* Python dict and str helpers *)

NoneText == <<"<None>">>
NoneLevel == -1

Get(d, k, default) == IF k \in DOMAIN d THEN d[k] ELSE default

Put(d, k, v) == [x \in (DOMAIN d) \cup {k} |-> IF x = k THEN v ELSE d[x]]

SetDefault(d, k, v) == IF k \in DOMAIN d THEN d ELSE Put(d, k, v)

Min(a, b) == IF a < b THEN a ELSE b

\* s[:n]
Prefix(s, n) == SubSeq(s, 1, Min(n, Len(s)))

\* the characters of a text of n characters: position i holds the digit i % 10
Text(n) == [i \in 1..n |-> ToString(i % 10)]

\* Python truthiness of a str-or-None
Truthy(s) == s # NoneText /\ s # <<>>

----------------------------------------------------------------------------
(* ac_collapse.py: CompressionLevel *)

RAW == 0
SUMMARY == 1
SEED == 2
SIGIL_ONLY == 3

----------------------------------------------------------------------------
(* arc_guardian.py: ArcGuardian.gate_node. The reasons are the source's,  *)
(* with its dash written in ASCII.                                        *)

MAX_DEPTH == 40
MAX_CHILDREN == 20

AllowedRoles == {"user", "ai", "system"}

gate_node_DepthUnchecked(role, cycle, child_count, depth) ==
    IF role \notin AllowedRoles
    THEN [ok |-> FALSE, reason |-> "Invalid role."]
    ELSE IF child_count > MAX_CHILDREN
    THEN [ok |-> FALSE, reason |-> "Too many children - structural overload."]
    ELSE [ok |-> TRUE, reason |-> "OK"]

gate_node(role, cycle, child_count, depth) ==
    IF role \notin AllowedRoles
    THEN [ok |-> FALSE, reason |-> "Invalid role."]
    ELSE IF depth > MAX_DEPTH
    THEN [ok |-> FALSE, reason |-> "Depth too deep - recursion risk."]
    ELSE IF child_count > MAX_CHILDREN
    THEN [ok |-> FALSE, reason |-> "Too many children - structural overload."]
    ELSE [ok |-> TRUE, reason |-> "OK"]

----------------------------------------------------------------------------
(* ac_collapse.py: ACCollapseEngine *)

SNIPPET_HIGH == 80
SNIPPET_LOW == 50
PRIORITY_HIGH == 3

\* What the engine's guardian can be bound to: nothing (the default of
\* __init__), an ArcGuardian, or an object whose gate is the structural gate
\* with the keywords _validate_node passes.
GuardianKinds == {"None", "ArcGuardian", "StructuralGate"}

\* guardian.gate(role=, cycle=, child_count=, depth=). ArcGuardian.gate is
\* input_gate(self, text): called with these keywords it raises TypeError.
GuardianGate(g, role, cycle, child_count, depth) ==
    IF g = "ArcGuardian"
    THEN [exc |-> "TypeError", ok |-> FALSE, reason |-> ""]
    ELSE LET r == gate_node(role, cycle, child_count, depth)
         IN [exc |-> "none", ok |-> r.ok, reason |-> r.reason]

GateCall(role, cycle, child_count, depth) ==
    [role |-> role, cycle |-> cycle, child_count |-> child_count, depth |-> depth]

\* _validate_node(node, depth): the gate's answer and the gate calls made
ValidateNode(g, d, depth) ==
    IF g = "None"
    THEN [exc |-> "none", ok |-> TRUE, reason |-> "", log |-> <<>>]
    ELSE LET role == Get(d, "role", "unknown")
             cycle == Get(d, "cycle", 0)
             children == Get(d, "children", <<>>)
             r == GuardianGate(g, role, cycle, Len(children), depth)
         IN [exc |-> r.exc, ok |-> r.ok, reason |-> r.reason,
             log |-> <<GateCall(role, cycle, Len(children), depth)>>]

BlockedNode_KeepChildren(d, reason) ==
    [role |-> Get(d, "role", "unknown"),
     cycle |-> Get(d, "cycle", 0),
     error |-> <<"[Guardian] Collapse blocked: ", reason>>,
     seed |-> <<"[Blocked]">>,
     compression_level |-> SIGIL_ONLY,
     compressed_from |-> Get(d, "compression_level", NoneLevel),
     children |-> Get(d, "children", <<>>)]

BlockedNode_AuditRaw(d, reason) ==
    [role |-> Get(d, "role", "unknown"),
     cycle |-> Get(d, "cycle", 0),
     error |-> <<"[Guardian] Collapse blocked: ", reason>>,
     seed |-> <<"[Blocked]">>,
     compression_level |-> SIGIL_ONLY,
     compressed_from |-> RAW,
     children |-> <<>>]

\* the dict returned for a node the gate rejected
BlockedNode(d, reason) ==
    [role |-> Get(d, "role", "unknown"),
     cycle |-> Get(d, "cycle", 0),
     error |-> <<"[Guardian] Collapse blocked: ", reason>>,
     seed |-> <<"[Blocked]">>,
     compression_level |-> SIGIL_ONLY,
     compressed_from |-> Get(d, "compression_level", NoneLevel),
     children |-> <<>>]

\* f"[AutoSeed AC-{cycle}]: {snippet}..."
AutoSeed(cycle, snippet) ==
    <<"[AutoSeed AC-", ToString(cycle), "]: ">> \o snippet \o <<"...">>

SeedBranch_KeepContent(d) ==
    IF d["compression_level"] = RAW
    THEN Put(Put(d, "compressed_from", RAW), "compression_level", SEED)
    ELSE d

\* "if seed:": the raw content is discarded, a RAW node moves to SEED
SeedBranch(d) ==
    LET d1 == Put(d, "content", NoneText)
    IN IF d1["compression_level"] = RAW
       THEN Put(Put(d1, "compressed_from", RAW), "compression_level", SEED)
       ELSE d1

SnippetLen_OffByOne(priority) ==
    IF priority > PRIORITY_HIGH THEN SNIPPET_HIGH ELSE SNIPPET_LOW

\* the number of characters kept: raw[:80] or raw[:50]
SnippetLen(priority) ==
    IF priority >= PRIORITY_HIGH THEN SNIPPET_HIGH ELSE SNIPPET_LOW

DeriveBranch_ToSummary(d) ==
    LET raw == Get(d, "content", <<>>)
        priority == Get(d, "priority", 0)
    IN IF raw = NoneText
       THEN [exc |-> "TypeError", d |-> d]
       ELSE LET snippet == Prefix(raw, SnippetLen(priority))
                d1 == Put(d, "seed", AutoSeed(Get(d, "cycle", 0), snippet))
                d2 == Put(d1, "content", NoneText)
                d3 == Put(d2, "compressed_from",
                          Get(d2, "compression_level", NoneLevel))
            IN [exc |-> "none", d |-> Put(d3, "compression_level", SUMMARY)]

\* "else:": a seed is generated from the raw content; None[:n] raises
DeriveBranch(d) ==
    LET raw == Get(d, "content", <<>>)
        priority == Get(d, "priority", 0)
    IN IF raw = NoneText
       THEN [exc |-> "TypeError", d |-> d]
       ELSE LET snippet == Prefix(raw, SnippetLen(priority))
                d1 == Put(d, "seed", AutoSeed(Get(d, "cycle", 0), snippet))
                d2 == Put(d1, "content", NoneText)
                d3 == Put(d2, "compressed_from",
                          Get(d2, "compression_level", NoneLevel))
            IN [exc |-> "none", d |-> Put(d3, "compression_level", SEED)]

PrismaticStep_AlwaysDerive(d) == DeriveBranch(d)

\* step 3 of collapse_state on the cloned dict: the dict after it, or the
\* exception it raises
PrismaticStep(d) ==
    IF Truthy(Get(d, "seed", NoneText))
    THEN [exc |-> "none", d |-> SeedBranch(d)]
    ELSE DeriveBranch(d)

RECURSIVE DeepcopyNode(_, _)
RECURSIVE DeepcopyList(_, _, _)

\* copy.deepcopy of the dict at address a: the heap with the copies added,
\* and the address of the copy
DeepcopyNode(h, a) ==
    IF "children" \in DOMAIN h[a]
    THEN LET r == DeepcopyList(h, h[a]["children"], <<>>)
         IN [heap |-> Append(r.heap, Put(h[a], "children", r.ret)),
             ret |-> Len(r.heap) + 1]
    ELSE [heap |-> Append(h, h[a]), ret |-> Len(h) + 1]

DeepcopyList(h, kids, acc) ==
    IF kids = <<>>
    THEN [heap |-> h, ret |-> acc]
    ELSE LET r == DeepcopyNode(h, Head(kids))
         IN DeepcopyList(r.heap, Tail(kids), Append(acc, r.ret))

Deepcopy_Alias(h, a) == [heap |-> h, ret |-> a]

Deepcopy(h, a) == DeepcopyNode(h, a)

AppendChild_Prepend(new_children, new_child) == <<new_child>> \o new_children

\* new_children.append(new_child)
AppendChild(new_children, new_child) == Append(new_children, new_child)

RECURSIVE collapse_state(_, _, _, _)
RECURSIVE CollapseChildren(_, _, _, _, _, _)

\* collapse_state(node, depth) on the dict at address a of heap h, with the
\* engine's guardian g: the heap after the call, the address returned (0 when
\* it raised), the exception raised, and the gate calls made, in order
collapse_state(h, a, depth, g) ==
    LET cp == Deepcopy(h, a)
        c == cp.ret
        d0 == SetDefault(SetDefault(cp.heap[c], "compression_level", RAW),
                         "compressed_from", NoneLevel)
        h1 == [cp.heap EXCEPT ![c] = d0]
        v == ValidateNode(g, d0, depth)
    IN IF v.exc # "none"
       THEN [heap |-> h1, ret |-> 0, exc |-> v.exc, log |-> v.log]
       ELSE IF ~v.ok
       THEN [heap |-> Append(h1, BlockedNode(d0, v.reason)),
             ret |-> Len(h1) + 1, exc |-> "none", log |-> v.log]
       ELSE LET step == PrismaticStep(d0)
            IN IF step.exc # "none"
               THEN [heap |-> h1, ret |-> 0, exc |-> step.exc, log |-> v.log]
               ELSE LET h2 == [h1 EXCEPT ![c] = step.d]
                        kids == CollapseChildren(h2, Get(step.d, "children", <<>>),
                                                 depth + 1, g, <<>>, v.log)
                    IN IF kids.exc # "none"
                       THEN [heap |-> kids.heap, ret |-> 0, exc |-> kids.exc,
                             log |-> kids.log]
                       ELSE [heap |-> [kids.heap EXCEPT
                                          ![c] = Put(@, "children", kids.ret)],
                             ret |-> c, exc |-> "none", log |-> kids.log]

\* the loop over child_list: new_children, or the first exception
CollapseChildren(h, kids, depth, g, acc, log) ==
    IF kids = <<>>
    THEN [heap |-> h, ret |-> acc, exc |-> "none", log |-> log]
    ELSE LET r == collapse_state(h, Head(kids), depth, g)
         IN IF r.exc # "none"
            THEN [heap |-> r.heap, ret |-> acc, exc |-> r.exc, log |-> log \o r.log]
            ELSE CollapseChildren(r.heap, Tail(kids), depth, g,
                                  AppendChild(acc, r.ret), log \o r.log)

----------------------------------------------------------------------------
(* Views of the heap *)

RECURSIVE TreeOf(_, _)
\* the tree of dicts rooted at address a, as a value: children by value
TreeOf(h, a) ==
    IF "children" \in DOMAIN h[a]
    THEN Put(h[a], "children",
             [i \in 1..Len(h[a]["children"]) |-> TreeOf(h, h[a]["children"][i])])
    ELSE h[a]

RECURSIVE Reach(_, _)
RECURSIVE ReachList(_, _)
\* the addresses of the tree rooted at a, in pre-order
Reach(h, a) == <<a>> \o ReachList(h, Get(h[a], "children", <<>>))
ReachList(h, kids) ==
    IF kids = <<>> THEN <<>> ELSE Reach(h, Head(kids)) \o ReachList(h, Tail(kids))

Addrs(h, a) == {Reach(h, a)[i] : i \in 1..Len(Reach(h, a))}

RECURSIVE Dedup(_, _)
Dedup(s, seen) ==
    IF s = <<>> THEN <<>>
    ELSE IF Head(s) \in seen THEN Dedup(Tail(s), seen)
    ELSE <<Head(s)>> \o Dedup(Tail(s), seen \cup {Head(s)})

IndexOf(s, x) == CHOOSE i \in 1..Len(s) : s[i] = x

\* the objects still referenced after a call (the argument's tree, then the
\* result's), renumbered in that order: unreferenced copies are collected
Live(h, arg, ret) ==
    Dedup(Reach(h, arg) \o (IF ret = 0 THEN <<>> ELSE Reach(h, ret)), {})

Compact(h, order) ==
    [i \in 1..Len(order) |->
        LET d == h[order[i]]
        IN IF "children" \in DOMAIN d
           THEN Put(d, "children",
                    [j \in 1..Len(d["children"]) |-> IndexOf(order, d["children"][j])])
           ELSE d]

\* the paths (sequences of child indices) of a tree value
RECURSIVE Paths(_)
Paths(t) ==
    {<<>>} \cup UNION {{<<i>> \o p : p \in Paths(t["children"][i])} :
                          i \in 1..Len(Get(t, "children", <<>>))}

RECURSIVE PreorderPaths(_)
RECURSIVE PreorderKids(_, _)
\* the paths of a tree value, in pre-order with children in list order
PreorderPaths(t) == <<<<>>>> \o PreorderKids(t, 1)
PreorderKids(t, i) ==
    IF i > Len(Get(t, "children", <<>>)) THEN <<>>
    ELSE LET sub == PreorderPaths(t["children"][i])
         IN [k \in 1..Len(sub) |-> <<i>> \o sub[k]] \o PreorderKids(t, i + 1)

RECURSIVE NodeAt(_, _)
NodeAt(t, p) == IF p = <<>> THEN t ELSE NodeAt(t["children"][Head(p)], Tail(p))

----------------------------------------------------------------------------
(* ac_sigils.py: SigilEngine *)

\* the characters standing for the three sigils of SIGIL_WEIGHTS
GEM == "<gem>"
SPARKLE == "<sparkle>"
BULLET == "<bullet>"

CountOf(text, ch) == Cardinality({i \in 1..Len(text) : text[i] = ch})

\* isinstance(text, str)
IsStr(text) == text # NoneText

Present(text, ch) == IF \E i \in 1..Len(text) : text[i] = ch THEN 1 ELSE 0

evaluate_PresenceOnly(text) ==
    IF ~IsStr(text) THEN 0
    ELSE Present(text, GEM) * 3 + Present(text, SPARKLE) * 2 + Present(text, BULLET) * 1

\* SigilEngine.evaluate(text)
evaluate(text) ==
    IF ~IsStr(text) THEN 0
    ELSE CountOf(text, GEM) * 3 + CountOf(text, SPARKLE) * 2 + CountOf(text, BULLET) * 1

----------------------------------------------------------------------------
(* arc_prime.py: HarmonicNode and ArcMemorySystem *)

\* HarmonicNode(role, content, cycle_id); id stands for the uuid: the number
\* of nodes created before this one
HarmonicNode(id, role, content, cycle_id) ==
    [id |-> id, role |-> role, raw_content |-> content,
     structural_seed |-> NoneText, cycle_alignment |-> cycle_id,
     children |-> <<>>, is_collapsed |-> FALSE, priority |-> 0]

\* apply_sigil_priority
ApplySigilPriority(n) == [n EXCEPT !.priority = evaluate(n.raw_content)]

\* prune_to_seed
PruneToSeed(n) ==
    IF n.priority >= 3
    THEN [n EXCEPT !.structural_seed =
                       <<"[AC-", ToString(n.cycle_alignment), "] ">>
                           \o Prefix(n.raw_content, 80) \o <<"...">>,
                   !.is_collapsed = TRUE]
    ELSE IF Len(n.raw_content) > 50
    THEN [n EXCEPT !.structural_seed =
                       <<"[Seed AC-", ToString(n.cycle_alignment), "]: ">>
                           \o Prefix(n.raw_content, 30) \o <<"...">>,
                   !.is_collapsed = TRUE]
    ELSE [n EXCEPT !.structural_seed = n.raw_content]

\* ArcMemorySystem.__init__: the root
RootNode == HarmonicNode(0, "system", <<"ArcCore-Prime Root Node">>, 1)

IngestedRoot_PruneFirst(r, n, user_text, ai_text, cycle_context) ==
    LET ai_node == ApplySigilPriority(PruneToSeed(
                       HarmonicNode(n + 1, "ai", ai_text, cycle_context)))
        user0 == ApplySigilPriority(PruneToSeed(
                       HarmonicNode(n, "user", user_text, cycle_context)))
        user_node == [user0 EXCEPT !.children = <<ai_node>>]
    IN [r EXCEPT !.children = Append(@, user_node)]

\* ingest_interaction: the root after it. The ai node is one object, linked
\* under the user node before it is pruned, so the user node's child is the
\* pruned ai node.
IngestedRoot(r, n, user_text, ai_text, cycle_context) ==
    LET ai_node == PruneToSeed(ApplySigilPriority(
                       HarmonicNode(n + 1, "ai", ai_text, cycle_context)))
        user0 == PruneToSeed(ApplySigilPriority(
                       HarmonicNode(n, "user", user_text, cycle_context)))
        user_node == [user0 EXCEPT !.children = <<ai_node>>]
    IN [r EXCEPT !.children = Append(@, user_node)]

\* the depth below a node of the memory tree
RECURSIVE Height(_)
Height(n) ==
    IF n.children = <<>> THEN 0
    ELSE 1 + (CHOOSE m \in {Height(n.children[i]) : i \in 1..Len(n.children)} :
                 \A i \in 1..Len(n.children) : Height(n.children[i]) <= m)

\* the largest number of children any node of the memory tree has
RECURSIVE MaxFanOut(_)
MaxFanOut(n) ==
    LET below == {MaxFanOut(n.children[i]) : i \in 1..Len(n.children)} \cup {Len(n.children)}
    IN CHOOSE m \in below : \A k \in below : k <= m

----------------------------------------------------------------------------
(* str.split, str.strip and int() on sequences of characters *)

IsPrefixAt(s, sep, i) ==
    /\ i + Len(sep) - 1 <= Len(s)
    /\ \A k \in 1..Len(sep) : s[i + k - 1] = sep[k]

RECURSIVE Split(_, _)
\* s.split(sep): the parts between the leftmost non-overlapping separators
Split(s, sep) ==
    IF \E i \in 1..Len(s) : IsPrefixAt(s, sep, i)
    THEN LET i == CHOOSE j \in 1..Len(s) :
                     /\ IsPrefixAt(s, sep, j)
                     /\ \A k \in 1..(j - 1) : ~IsPrefixAt(s, sep, k)
         IN <<SubSeq(s, 1, i - 1)>> \o Split(SubSeq(s, i + Len(sep), Len(s)), sep)
    ELSE <<s>>

RECURSIVE Strip(_)
\* s.strip()
Strip(s) ==
    IF s # <<>> /\ Head(s) = " " THEN Strip(Tail(s))
    ELSE IF s # <<>> /\ s[Len(s)] = " " THEN Strip(SubSeq(s, 1, Len(s) - 1))
    ELSE s

Digits == {"0", "1", "2", "3", "4", "5", "6", "7", "8", "9"}
DigitValue(c) == CHOOSE v \in 0..9 : ToString(v) = c

\* int(s) succeeds
IsInt(s) ==
    LET t == Strip(s)
        body == IF t # <<>> /\ Head(t) = "-" THEN Tail(t) ELSE t
    IN body # <<>> /\ \A i \in 1..Len(body) : body[i] \in Digits

RECURSIVE NatOf(_)
NatOf(ds) == IF ds = <<>> THEN 0 ELSE NatOf(SubSeq(ds, 1, Len(ds) - 1)) * 10 + DigitValue(ds[Len(ds)])

\* int(s) of a str for which it succeeds
IntOf(s) ==
    LET t == Strip(s)
    IN IF Head(t) = "-" THEN 0 - NatOf(Tail(t)) ELSE NatOf(t)

----------------------------------------------------------------------------
(* ac_interpreter.py and ac_shell.py: the inject handlers *)

\* ArcInterpreter.cmd_inject(args): the reply, and whether it ingested
CmdInject(args) ==
    LET parts == Split(args, <<"|">>)
    IN IF Len(parts) # 3
       THEN [reply |-> "[inject] Format: ac inject user|ai|cycle", ingest |-> FALSE]
       ELSE IF ~IsInt(parts[3])
       THEN [reply |-> "[inject error] ValueError", ingest |-> FALSE]
       ELSE [reply |-> "[inject] Interaction added.", ingest |-> TRUE,
             user_text |-> Strip(parts[1]), ai_text |-> Strip(parts[2]),
             cycle_context |-> IntOf(parts[3])]

\* ArcShell._cmd_inject(param_block): the shell's guardian is an ArcGuardian,
\* whose gate is input_gate; its TypeError is caught by the handler
ShellCmdInject(param_block) ==
    LET parts == Split(param_block, <<"|", "|">>)
    IN IF Len(parts) # 3
       THEN [reply |-> "[ArcShell] inject requires: user || ai || cycle", ingest |-> FALSE]
       ELSE IF ~IsInt(parts[3])
       THEN [reply |-> "[Guardian] Cycle must be an integer.", ingest |-> FALSE]
       ELSE LET g == GuardianGate("ArcGuardian", "user", IntOf(parts[3]), 1, 1)
            IN IF g.exc # "none"
               THEN [reply |-> "[ArcShell] Inject error: TypeError", ingest |-> FALSE]
               ELSE IF ~g.ok
               THEN [reply |-> "[Guardian] Blocked: " \o g.reason, ingest |-> FALSE]
               ELSE [reply |-> "[ArcShell] Injected safely.", ingest |-> TRUE,
                     user_text |-> Strip(parts[1]), ai_text |-> Strip(parts[2]),
                     cycle_context |-> IntOf(parts[3])]

----------------------------------------------------------------------------
(* The records collapse_state is given *)

\* a record in the persisted shape of HarmonicNode.to_dict (children added
\* when the tree is laid out)
Persisted(role, cycle, content, seed, collapsed, priority) ==
    [id |-> "id", role |-> role, cycle |-> cycle, content |-> content,
     seed |-> seed, collapsed |-> collapsed, priority |-> priority]

\* the seed prune_to_seed gave a text at ingestion
PrunedSeed(cycle, content) ==
    PruneToSeed(ApplySigilPriority(HarmonicNode(0, "ai", content, cycle))).structural_seed

\* the records drawn for the nodes below the root
ChildKinds ==
    { Persisted("user", 3, Text(81), NoneText, FALSE, 3),
      Persisted("intruder", 3, Text(3), NoneText, FALSE, 0),
      Persisted("ai", 3, Text(51), PrunedSeed(3, Text(51)), TRUE, 0),
      [role |-> "user"] }

\* the records drawn for the root: fresh and seeded records in the persisted
\* shape, records at each level with and without a seed, records with
\* missing keys and with content None
NodeKinds ==
    ChildKinds \cup
    { Persisted("ai", 3, Text(3), NoneText, FALSE, 0),
      Persisted("user", 3, Text(81), NoneText, FALSE, 2),
      Persisted("user", 3, Text(80), NoneText, FALSE, 4),
      Persisted("ai", 3, Text(51), NoneText, FALSE, 0),
      Persisted("user", 3, NoneText, NoneText, FALSE, 0),
      [role |-> "user", cycle |-> 7, content |-> Text(3),
       compression_level |-> SIGIL_ONLY, compressed_from |-> RAW],
      [role |-> "user", cycle |-> 3, content |-> NoneText, seed |-> <<"s">>,
       compression_level |-> SEED, compressed_from |-> RAW],
      [role |-> "user", cycle |-> 3, content |-> Text(3), seed |-> <<"s">>,
       compression_level |-> SEED, compressed_from |-> RAW],
      [role |-> "user", cycle |-> 3, content |-> Text(3), seed |-> <<"s">>,
       compression_level |-> SUMMARY],
      [role |-> "user", cycle |-> 3, content |-> Text(3), seed |-> NoneText,
       compression_level |-> SUMMARY] }

\* the children of node j when node i > 1 hangs under node par[i] < i
KidsOf(par, n, j) ==
    LET ks == {i \in 2..n : par[i] = j}
        F[k \in 0..Cardinality(ks)] ==
            IF k = 0 THEN <<>>
            ELSE LET prev == F[k - 1]
                     nxt == CHOOSE i \in ks :
                               /\ \A q \in 1..Len(prev) : prev[q] < i
                               /\ \A i2 \in ks : (\A q \in 1..Len(prev) : prev[q] < i2) => i <= i2
                 IN Append(prev, nxt)
    IN F[Cardinality(ks)]

\* a record of the persisted shape always holds children; a hand-made record
\* holds the key only when it has children
Layout(kinds, par, n) ==
    [j \in 1..n |->
        LET ks == KidsOf(par, n, j)
        IN IF ks = <<>> /\ "id" \notin DOMAIN kinds[j]
           THEN kinds[j]
           ELSE Put(kinds[j], "children", ks)]

InputHeaps ==
    UNION {
        { LET h == Layout(kinds, par, n) IN Compact(h, Live(h, 1, 0)) :
            kinds \in {k \in [1..n -> NodeKinds] : \A i \in 2..n : k[i] \in ChildKinds},
            par \in {f \in [2..n -> 1..n] : \A i \in 2..n : f[i] < i} }
        : n \in 1..MaxNodes }

DepthArgs == {0, MAX_DEPTH, MAX_DEPTH + 1}

----------------------------------------------------------------------------
(* The collapse engine: repeated collapse_state calls, each result fed back *)

\* the parts of the system a specification leaves untouched
CollapseIdle ==
    /\ heap = <<>>
    /\ guardianKind = "None"
    /\ inRoot = 0
    /\ outRoot = 0
    /\ callDepth = 0
    /\ outcome = "init"
    /\ calls = 0
    /\ gateLog = <<>>

GateIdle == gateArgs = <<>> /\ gateResult = <<>>

\* no interpret call made, or the last call was none
PipelineIdle == [text |-> <<>>, steps |-> <<>>]

MemoryIdle ==
    /\ root = RootNode /\ created = 1 /\ reply = "None" /\ ingested = <<>>
    /\ pipeline = PipelineIdle

SigilIdle == sigilText = <<>> /\ sigilScores = <<>>

ReconstructIdle ==
    /\ recTree = <<>> /\ recOp = "none" /\ recCycle = 0 /\ recOut = <<>>
    /\ recCalls = 0

InitCollapse ==
    /\ heap \in InputHeaps
    /\ guardianKind \in GuardianKinds
    /\ inRoot = 1
    /\ outRoot = 0
    /\ callDepth = 0
    /\ outcome = "init"
    /\ calls = 0
    /\ gateLog = <<>>
    /\ GateIdle
    /\ MemoryIdle
    /\ ReconstructIdle
    /\ SigilIdle

\* the node the next call is given: the caller's tree, then each result
NextArg == IF outcome = "init" THEN inRoot ELSE outRoot

CollapseState(depth) ==
    /\ calls < MaxCalls
    /\ outcome \in {"init", "returned"}
    /\ LET r == collapse_state(heap, NextArg, depth, guardianKind)
           order == Live(r.heap, NextArg, r.ret)
       IN /\ heap' = Compact(r.heap, order)
          /\ inRoot' = 1
          /\ outRoot' = IF r.ret = 0 THEN 0 ELSE IndexOf(order, r.ret)
          /\ outcome' = IF r.exc = "none" THEN "returned" ELSE r.exc
          /\ gateLog' = r.log
    /\ callDepth' = depth
    /\ calls' = calls + 1
    /\ UNCHANGED <<guardianKind, gateVars, memoryVars, reconstructVars, sigilVars>>

NextCollapse == \E depth \in DepthArgs : CollapseState(depth)

Spec == InitCollapse /\ [][NextCollapse]_vars

\* the same calls on the trees whose nodes are all at RAW
InitRaw ==
    /\ InitCollapse
    /\ \A a \in 1..Len(heap) : Get(heap[a], "compression_level", RAW) = RAW

SpecRaw == InitRaw /\ [][NextCollapse]_vars

----------------------------------------------------------------------------
(* The structural gate alone: gate_node applied to arguments drawn from     *)
(* both sides of each of its checks                                         *)

GateRoles == AllowedRoles \cup {"intruder"}
GateCycles == {-1, 0, 3, 1000}
GateCounts == {0, MAX_CHILDREN, MAX_CHILDREN + 1}
GateDepths == {0, MAX_DEPTH, MAX_DEPTH + 1}

InitGate ==
    /\ gateArgs \in [role : GateRoles, cycle : GateCycles,
                     child_count : GateCounts, depth : GateDepths]
    /\ gateResult = <<>>
    /\ CollapseIdle
    /\ MemoryIdle
    /\ ReconstructIdle
    /\ SigilIdle

CallGateNode ==
    /\ gateResult = <<>>
    /\ gateResult' = gate_node(gateArgs.role, gateArgs.cycle,
                               gateArgs.child_count, gateArgs.depth)
    /\ UNCHANGED <<gateArgs, collapseVars, memoryVars, reconstructVars, sigilVars>>

NextGate == CallGateNode

SpecGate == InitGate /\ [][NextGate]_vars

----------------------------------------------------------------------------
(* The memory tree under repeated ingestion, called directly and through   *)
(* the interpreter's and the shell's inject handlers                        *)

\* one more ingestion than the gate's child-count ceiling allows a node
FanOutIngests == MAX_CHILDREN + 1

UserText == <<"h", "i">>
AiText == <<"y", "o">>

\* "hi|yo|3", "hi|yo|x", "hi|yo" and "hi || yo || 3", "hi || yo || x", "hi"
InterpreterArgs ==
    { <<"h", "i", "|", "y", "o", "|", "3">>,
      <<"h", "i", "|", "y", "o", "|", "x">>,
      <<"h", "i", "|", "y", "o">> }
ShellArgs ==
    { <<"h", "i", " ", "|", "|", " ", "y", "o", " ", "|", "|", " ", "3">>,
      <<"h", "i", " ", "|", "|", " ", "y", "o", " ", "|", "|", " ", "x">>,
      <<"h", "i">> }

InitMemory ==
    /\ MemoryIdle
    /\ CollapseIdle
    /\ GateIdle
    /\ ReconstructIdle
    /\ SigilIdle

\* ArcMemorySystem.ingest_interaction(user_text, ai_text, cycle_context)
IngestInteraction(user_text, ai_text, cycle_context) ==
    /\ Len(root.children) < FanOutIngests
    /\ root' = IngestedRoot(root, created, user_text, ai_text, cycle_context)
    /\ created' = created + 2
    /\ reply' = "None"
    /\ ingested' = <<user_text, ai_text, cycle_context>>
    /\ pipeline' = PipelineIdle
    /\ UNCHANGED <<collapseVars, gateVars, reconstructVars, sigilVars>>

\* what an inject handler does with its answer r
Injected(r) ==
    /\ reply' = r.reply
    /\ pipeline' = Get(r, "pipeline", PipelineIdle)
    /\ IF r.ingest
       THEN /\ root' = IngestedRoot(root, created, r.user_text, r.ai_text,
                                    r.cycle_context)
            /\ created' = created + 2
            /\ ingested' = <<r.user_text, r.ai_text, r.cycle_context>>
       ELSE UNCHANGED <<root, created, ingested>>
    /\ UNCHANGED <<collapseVars, gateVars, reconstructVars, sigilVars>>

\* ArcInterpreter.cmd_inject(args)
InterpreterInject(args) ==
    /\ Len(root.children) < FanOutIngests
    /\ Injected(CmdInject(args))

\* ArcShell._cmd_inject(param_block)
ShellInject(param_block) ==
    /\ Len(root.children) < FanOutIngests
    /\ Injected(ShellCmdInject(param_block))

NextMemory ==
    \/ IngestInteraction(UserText, AiText, 3)
    \/ \E args \in InterpreterArgs : InterpreterInject(args)
    \/ \E block \in ShellArgs : ShellInject(block)

SpecMemory == InitMemory /\ [][NextMemory]_vars

----------------------------------------------------------------------------
(* The memory tree under a few ingestions of differing texts and cycles     *)

MaxIngests == 2

\* a short text, a short text holding the weight-3 sigil, a text longer than
\* the 50 characters prune_to_seed keeps whole, and a text longer than 80
\* characters holding the weight-3 sigil
IngestTexts ==
    { <<"h", "i">>, <<GEM, "a">>, Text(51), <<GEM>> \o Text(81) }

IngestCycles == {3, 7}

NextIngest ==
    \E user_text \in IngestTexts, ai_text \in IngestTexts, cycle_context \in IngestCycles :
        /\ Len(root.children) < MaxIngests
        /\ IngestInteraction(user_text, ai_text, cycle_context)

SpecIngest == InitMemory /\ [][NextIngest]_vars

----------------------------------------------------------------------------
(* ac_reconstruct.py: ArcReconstruct. A line is a str: the indentation, a   *)
(* token per literal of the f-string and the tokens of the text rendered.   *)

\* str.upper() of a role tag
Upper(role) ==
    CASE role = "user" -> "USER"
      [] role = "ai" -> "AI"
      [] role = "system" -> "SYSTEM"
      [] role = "intruder" -> "INTRUDER"
      [] OTHER -> role

\* "  " * depth
Indent(depth) == [i \in 1..depth |-> "  "]

\* a str-or-None inside an f-string
Render(v) == IF v = NoneText THEN <<"None">> ELSE v

\* f"{indent}[AC-{cycle}] {role}: {body}"
LineOf(depth, node, body) ==
    Indent(depth)
      \o <<"[AC-", ToString(Get(node, "cycle", 0)), "] ",
           Upper(Get(node, "role", "")), ": ">>
      \o body

\* expand_seed(seed): seed.replace("[AutoSeed", "[Seed")
expand_seed(seed) ==
    IF ~Truthy(seed)
    THEN <<"[No seed available]">>
    ELSE [i \in 1..Len(seed) |->
             IF seed[i] = "[AutoSeed AC-" THEN "[Seed AC-" ELSE seed[i]]

SIGIL_ANCHOR == <<"[Sigil Anchor - reconstruction required]">>

SigilLine_ShowsSeed(node, depth) ==
    LineOf(depth, node, expand_seed(Get(node, "seed", NoneText)))

\* the line of a node at SIGIL_ONLY
SigilLine(node, depth) == LineOf(depth, node, SIGIL_ANCHOR)

UNRECOGNIZED == <<"[Unrecognized compression level]">>

UnrecognizedLines_Dropped == <<>>

\* the defensive fallback: the lines returned for any other level
UnrecognizedLines == <<UNRECOGNIZED>>

RECURSIVE reconstruct_node(_, _)
RECURSIVE reconstruct_path(_, _)
RECURSIVE ReconstructChildren(_, _)

\* reconstruct_path(node, depth): the node's line, then its children's lines
reconstruct_path(node, depth) ==
    LET seed == Get(node, "seed", NoneText)
        body == IF Truthy(seed) THEN seed
                ELSE Render(Get(node, "content", <<"[No content]">>))
    IN <<LineOf(depth, node, body)>>
         \o ReconstructChildren(Get(node, "children", <<>>), depth + 1)

\* for child in node.get("children", []): lines.extend(reconstruct_node(...))
ReconstructChildren(kids, depth) ==
    IF kids = <<>> THEN <<>>
    ELSE reconstruct_node(Head(kids), depth) \o ReconstructChildren(Tail(kids), depth)

\* reconstruct_node(node, depth): the dispatch on compression_level
reconstruct_node(node, depth) ==
    LET level == Get(node, "compression_level", RAW)
    IN IF level \in {RAW, SUMMARY}
       THEN reconstruct_path(node, depth)
       ELSE IF level = SEED
       THEN <<LineOf(depth, node, expand_seed(Get(node, "seed", NoneText)))>>
       ELSE IF level = SIGIL_ONLY
       THEN <<SigilLine(node, depth)>>
       ELSE UnrecognizedLines

Visited_ExpandsInPlace(node) ==
    Put(node, "seed", expand_seed(Get(node, "seed", NoneText)))

\* the dict of a node after reconstruct_node and reconstruct_path have
\* handled it: they read it with node.get and assign none of its keys
Visited(node) == node

RECURSIVE TreeAfterFull(_)
\* the tree after reconstruct_node has walked it: the nodes it reached
TreeAfterFull(node) ==
    IF Get(node, "compression_level", RAW) \in {RAW, SUMMARY}
          /\ "children" \in DOMAIN node
    THEN Put(Visited(node), "children",
             [i \in 1..Len(node["children"]) |-> TreeAfterFull(node["children"][i])])
    ELSE Visited(node)

RECURSIVE Join(_, _)
\* sep.join(lines)
Join(lines, sep) ==
    IF lines = <<>> THEN <<>>
    ELSE IF Len(lines) = 1 THEN lines[1]
    ELSE lines[1] \o sep \o Join(Tail(lines), sep)

NEWLINE == <<"\n">>

\* reconstruct_full(tree)
reconstruct_full(tree) == Join(reconstruct_node(tree, 0), NEWLINE)

----------------------------------------------------------------------------
(* The cycle-threaded view, reconstructThread(tree, cycleId). The source    *)
(* files hold its callers only; it is modelled from the interface           *)
(* description: a depth-first walk of every node that emits the expanded    *)
(* seed of the nodes of the target cycle.                                   *)

RECURSIVE reconstructThread(_, _)
RECURSIVE ThreadChildren(_, _)

\* the line emitted for a node of the thread
ThreadLine(node) == expand_seed(Get(node, "seed", NoneText))

ThreadChildren(kids, cycleId) ==
    IF kids = <<>> THEN <<>>
    ELSE reconstructThread(Head(kids), cycleId) \o ThreadChildren(Tail(kids), cycleId)

reconstructThread_Pruned(tree, cycleId) ==
    IF Get(tree, "cycle", 0) = cycleId
    THEN <<ThreadLine(tree)>> \o ThreadChildren(Get(tree, "children", <<>>), cycleId)
    ELSE <<>>

reconstructThread(tree, cycleId) ==
    (IF Get(tree, "cycle", 0) = cycleId THEN <<ThreadLine(tree)>> ELSE <<>>)
      \o ThreadChildren(Get(tree, "children", <<>>), cycleId)

RECURSIVE TreeAfterThread(_)
\* the tree after the cycle-threaded walk, which reads every node
TreeAfterThread(node) ==
    IF "children" \in DOMAIN node
    THEN Put(Visited(node), "children",
             [i \in 1..Len(node["children"]) |-> TreeAfterThread(node["children"][i])])
    ELSE Visited(node)

----------------------------------------------------------------------------
(* Reconstruction of one tree: reconstruct_full, and the cycle-threaded     *)
(* view of the interface, each traversal made on the tree the one before    *)
(* left                                                                     *)

MaxRecNodes == 3
MaxRecCalls == 2

\* a level value outside CompressionLevel: one past its last member
BAD_LEVEL == SIGIL_ONLY + 1

\* the records drawn for the nodes of a tree given to reconstruction: a
\* persisted record without a level, collapsed records at SEED and SUMMARY,
\* a blocked record, a record of an unknown level, a SEED record without a
\* seed, and a record holding a level only
RecKinds ==
    { Persisted("user", 3, <<"h", "i">>, NoneText, FALSE, 0),
      [role |-> "ai", cycle |-> 7, content |-> NoneText,
       seed |-> AutoSeed(7, <<"y", "o">>), compression_level |-> SEED,
       compressed_from |-> RAW],
      [role |-> "user", cycle |-> 7, content |-> <<"s", "u", "m">>,
       seed |-> <<"s">>, compression_level |-> SUMMARY],
      [role |-> "intruder", cycle |-> 3, content |-> <<"hidden content">>,
       seed |-> <<"hidden seed">>, error |-> <<"e">>,
       compression_level |-> SIGIL_ONLY, compressed_from |-> RAW],
      [role |-> "user", cycle |-> 3, content |-> <<"b", "a", "d">>,
       seed |-> NoneText, compression_level |-> BAD_LEVEL],
      [role |-> "ai", cycle |-> 3, content |-> NoneText, seed |-> NoneText,
       compression_level |-> SEED],
      [compression_level |-> RAW] }

RecTrees ==
    UNION {
        { TreeOf(Layout(kinds, par, n), 1) :
            kinds \in [1..n -> RecKinds],
            par \in {f \in [2..n -> 1..n] : \A i \in 2..n : f[i] < i} }
        : n \in 1..MaxRecNodes }

RecCycles == {3, 7}

InitReconstruct ==
    /\ recTree \in RecTrees
    /\ recOp = "none"
    /\ recCycle = 0
    /\ recOut = <<>>
    /\ recCalls = 0
    /\ CollapseIdle
    /\ GateIdle
    /\ MemoryIdle
    /\ SigilIdle

\* ArcReconstruct.reconstruct_full(tree); the tree is passed by reference
ReconstructFull ==
    /\ recCalls < MaxRecCalls
    /\ recCalls' = recCalls + 1
    /\ recOp' = "full"
    /\ recOut' = reconstruct_full(recTree)
    /\ recTree' = TreeAfterFull(recTree)
    /\ UNCHANGED <<recCycle, collapseVars, gateVars, memoryVars, sigilVars>>

\* reconstructThread(tree, cycleId)
ReconstructThread(cycleId) ==
    /\ recCalls < MaxRecCalls
    /\ recCalls' = recCalls + 1
    /\ recOp' = "thread"
    /\ recCycle' = cycleId
    /\ recOut' = reconstructThread(recTree, cycleId)
    /\ recTree' = TreeAfterThread(recTree)
    /\ UNCHANGED <<collapseVars, gateVars, memoryVars, sigilVars>>

NextReconstruct ==
    \/ ReconstructFull
    \/ \E cycleId \in RecCycles : ReconstructThread(cycleId)

SpecReconstruct == InitReconstruct /\ [][NextReconstruct]_vars

----------------------------------------------------------------------------
(* What a state shows of the last collapse_state call *)

Returned == outcome = "returned"

\* the tree the call was given and the tree it returned
InTree == TreeOf(heap, inRoot)
OutTree == TreeOf(heap, outRoot)

\* every node of the result stands at the place of a node of the input
OutPaths == Paths(OutTree)
InNode(p) == NodeAt(InTree, p)
OutNode(p) == NodeAt(OutTree, p)

\* a node's level, a record without one being at RAW
LevelOf(n) == Get(n, "compression_level", RAW)

NoContent(n) == Get(n, "content", NoneText) \in {NoneText, <<>>}

HasSeed(n) == Truthy(Get(n, "seed", NoneText))

\* the policy's verdict on the input node at path p, at the depth it has in
\* the call
PolicyRejects(p) ==
    ~gate_node(Get(InNode(p), "role", "unknown"), Get(InNode(p), "cycle", 0),
               Len(Get(InNode(p), "children", <<>>)), callDepth + Len(p)).ok

\* the engine's gate rejected the input node at path p
GateRejected(p) == guardianKind = "StructuralGate" /\ PolicyRejects(p)

----------------------------------------------------------------------------
(* C1: across repeated collapse_state calls, each result fed back, no node's *)
(* compression_level ordinal decreases from one call to the next, whatever  *)
(* level and seed the node started with.                                    *)
C1_LevelNeverDecreases ==
    Returned => \A p \in OutPaths : LevelOf(OutNode(p)) >= LevelOf(InNode(p))

(* C2: after any collapse_state call every node of the returned tree,      *)
(* accepted or blocked, at any depth, that is not at RAW has no raw content. *)
C2_MutualExclusion ==
    Returned =>
        \A p \in OutPaths : LevelOf(OutNode(p)) # RAW => NoContent(OutNode(p))

\* a call returned a tree in which an accepted node and a blocked node below
\* the root both held raw content in the input
C2_Witness ==
    /\ Returned
    /\ \E p \in OutPaths : /\ ~GateRejected(p)
                           /\ ~NoContent(InNode(p))
                           /\ LevelOf(OutNode(p)) # RAW
    /\ \E p \in OutPaths : /\ GateRejected(p)
                           /\ p # <<>>
                           /\ ~NoContent(InNode(p))
                           /\ LevelOf(OutNode(p)) # RAW

\* the gate call collapse_state makes for the input node at path p
GateCallFor(p) ==
    GateCall(Get(InNode(p), "role", "unknown"), Get(InNode(p), "cycle", 0),
             Len(Get(InNode(p), "children", <<>>)), callDepth + Len(p))

(* C3: a node the gate rejects is returned with zero children, however     *)
(* many the input had, and none of its descendants is processed: the gate  *)
(* is consulted for the nodes of the result and for no other.              *)
C3_Amputation ==
    Returned =>
        /\ \A p \in OutPaths : GateRejected(p) => OutNode(p)["children"] = <<>>
        /\ guardianKind = "StructuralGate" =>
              LET pp == PreorderPaths(OutTree)
              IN gateLog = [i \in 1..Len(pp) |-> GateCallFor(pp[i])]

\* the gate accepted the root and rejected a child of it that had a child
\* of its own
C3_Witness ==
    /\ Returned
    /\ \E p \in OutPaths :
          /\ p # <<>>
          /\ GateRejected(p)
          /\ Len(Get(InNode(p), "children", <<>>)) >= 1
          /\ "error" \in DOMAIN OutNode(p)

\* the guardian of the engines ArcMemorySystem, ArcShell and ArcInterpreter
\* construct: ACCollapseEngine() binds none
SystemEngineGuardian == "None"

\* a node collapsed the normal way: at SEED, not a blocked record
NormalSeedNode(n) == LevelOf(n) = SEED /\ "error" \notin DOMAIN n

(* C4: in the engines the system constructs, collapse_state consults the   *)
(* policy gate for every node it visits before changing it, so a node the  *)
(* policy rejects (role, child count or depth) is never returned as a      *)
(* normally collapsed SEED node.                                           *)
C4_EveryCollapseGated ==
    (Returned /\ guardianKind = SystemEngineGuardian) =>
        \A p \in OutPaths : PolicyRejects(p) => ~NormalSeedNode(OutNode(p))

(* C5: bound to an ArcGuardian, collapse_state gets an (allowed, reason)   *)
(* pair from the guardian's gate and returns a node; no error propagates.  *)
C5_NoErrorPropagates ==
    (guardianKind = "ArcGuardian" /\ outcome # "init") => Returned

(* C7: collapse_state never mutates its input: after the call the tree     *)
(* passed in holds the fields and children it held before, and the result  *)
(* shares no node with it.                                                 *)
C7_InputNeverMutated ==
    [][ calls' = calls + 1 =>
          /\ TreeOf(heap', inRoot') = TreeOf(heap, NextArg)
          /\ outcome' = "returned" =>
                Addrs(heap', inRoot') \cap Addrs(heap', outRoot') = {} ]_vars

\* a call returned a tree that differs from its input in an accepted node
\* and has a blocked node where the input had a subtree
C7_Witness ==
    /\ Returned
    /\ ~GateRejected(<<>>)
    /\ HasSeed(OutNode(<<>>)) /\ ~HasSeed(InNode(<<>>))
    /\ \E p \in OutPaths : GateRejected(p) /\ Len(Get(InNode(p), "children", <<>>)) >= 1

(* C8: collapsing a gate-accepted node that already has a seed and is at   *)
(* SEED, and collapsing the result again, yields the same seed both times  *)
(* and leaves the level at SEED.                                           *)
C8_SeededIdempotent ==
    Returned =>
        \A p \in OutPaths :
            (HasSeed(InNode(p)) /\ LevelOf(InNode(p)) = SEED /\ ~GateRejected(p)) =>
                /\ OutNode(p)["seed"] = InNode(p)["seed"]
                /\ LevelOf(OutNode(p)) = SEED

\* the second collapse in a row of a node that was seeded and at SEED before
\* the first: the input of this call is the result of the one before
C8_Witness ==
    /\ Returned
    /\ calls >= 2
    /\ HasSeed(InNode(<<>>)) /\ LevelOf(InNode(<<>>)) = SEED
    /\ "compressed_from" \in DOMAIN InNode(<<>>)
    /\ InNode(<<>>)["seed"] = <<"s">>
    /\ ~GateRejected(<<>>)

\* the seed's parts: tag, cycle, separator, snippet, ellipsis
SnippetOf(seed) == SubSeq(seed, 4, Len(seed) - 1)

(* C9: a seed derived for a gate-accepted node without one keeps exactly   *)
(* the first 80 characters of the raw content when priority >= 3 and the   *)
(* first 50 otherwise (all of a shorter content), tagged with the node's   *)
(* cycle; the node ends at SEED with its content cleared.                  *)
C9_SnippetLength ==
    Returned =>
        \A p \in OutPaths :
            (~HasSeed(InNode(p)) /\ ~GateRejected(p)) =>
                LET raw == Get(InNode(p), "content", <<>>)
                    n == IF Get(InNode(p), "priority", 0) >= 3 THEN 80 ELSE 50
                    k == IF Len(raw) < n THEN Len(raw) ELSE n
                    seed == OutNode(p)["seed"]
                IN /\ Len(seed) = k + 4
                   /\ \A i \in 1..k : SnippetOf(seed)[i] = raw[i]
                   /\ seed[1] = "[AutoSeed AC-"
                   /\ seed[2] = ToString(Get(InNode(p), "cycle", 0))
                   /\ LevelOf(OutNode(p)) = SEED
                   /\ OutNode(p)["content"] = NoneText

\* one call derived an 80-character snippet from a longer content at
\* priority 3 and a 50-character snippet from a longer content below it
C9_Witness ==
    /\ Returned
    /\ \E p \in OutPaths :
          /\ ~HasSeed(InNode(p)) /\ ~GateRejected(p)
          /\ Get(InNode(p), "priority", 0) = 3
          /\ Len(Get(InNode(p), "content", <<>>)) > 80
          /\ Len(SnippetOf(OutNode(p)["seed"])) = 80
    /\ \E p \in OutPaths :
          /\ ~HasSeed(InNode(p)) /\ ~GateRejected(p)
          /\ Get(InNode(p), "priority", 0) < 3
          /\ Len(Get(InNode(p), "content", <<>>)) > 50
          /\ Len(SnippetOf(OutNode(p)["seed"])) = 50

----------------------------------------------------------------------------
(* Claims about the structural gate and the memory tree *)

(* C6: the structural gate allows exactly when every check passes, and     *)
(* otherwise gives the reason of the first failing check in the order      *)
(* role, cycle range, child-count ceiling, depth ceiling: with a permitted *)
(* role and both the child count and the depth over their ceilings the     *)
(* reason names the child-count check. (The source holds no cycle range;   *)
(* the formula states the claim for the three checks it has.)              *)
C6_FirstFailingCheck ==
    gateResult # <<>> =>
        LET roleOk == gateArgs.role \in AllowedRoles
            countOk == gateArgs.child_count <= MAX_CHILDREN
            depthOk == gateArgs.depth <= MAX_DEPTH
        IN /\ gateResult.ok <=> (roleOk /\ countOk /\ depthOk)
           /\ ~gateResult.ok =>
                 gateResult.reason =
                     IF ~roleOk THEN "Invalid role."
                     ELSE IF ~countOk THEN "Too many children - structural overload."
                     ELSE "Depth too deep - recursion risk."

(* C10: after any sequence of ingest operations every node of the memory   *)
(* tree, the root included, has at most maxChildrenPerNode children and    *)
(* depth at most maxDepth.                                                 *)
C10_BoundedTree ==
    /\ MaxFanOut(root) <= MAX_CHILDREN
    /\ Height(root) <= MAX_DEPTH

----------------------------------------------------------------------------
(* What a state shows of a reconstruction *)

FullDone == recOp = "full"

\* the lines of the text reconstruct_full returned
RecLines == Split(recOut, NEWLINE)

RecNode(p) == NodeAt(recTree, p)

RecLevelAt(p) == Get(RecNode(p), "compression_level", RAW)

\* the number of indentation units a line starts with
RECURSIVE IndentOf(_)
IndentOf(line) ==
    IF line # <<>> /\ Head(line) = "  " THEN 1 + IndentOf(Tail(line)) ELSE 0

\* the walk reaches the node at path p: every node above it is rendered by
\* reconstruct_path, which goes on into the children
Reached(p) ==
    \A k \in 0..(Len(p) - 1) : RecLevelAt(SubSeq(p, 1, k)) \in {RAW, SUMMARY}

\* the nodes the walk reaches, in the order it reaches them
ReachedPaths == SelectSeq(PreorderPaths(recTree), Reached)

\* the place in the output of the line of a reached node
LineIndex(p) == IndexOf(ReachedPaths, p)

Tokens(s) == {s[i] : i \in 1..Len(s)}

RECURSIVE ReplaceAt(_, _, _)
\* the tree t with the subtree at path p replaced by n
ReplaceAt(t, p, n) ==
    IF p = <<>> THEN n
    ELSE [t EXCEPT !["children"][Head(p)] = ReplaceAt(@, Tail(p), n)]

(* C11: reconstruct_full renders exactly one line for every node of the    *)
(* tree, in pre-order with children in list order, each line indented by   *)
(* the depth of its node and carrying its cycle; a node at SEED is         *)
(* rendered and its children are rendered after it. Stated for the trees  *)
(* whose nodes all hold a recognized level.                                *)
C11_OneLinePerNode ==
    (FullDone /\ \A p \in Paths(recTree) :
                     RecLevelAt(p) \in {RAW, SUMMARY, SEED, SIGIL_ONLY}) =>
        LET pp == PreorderPaths(recTree)
        IN /\ Len(RecLines) = Len(pp)
           /\ \A i \in 1..Len(pp) :
                 /\ IndentOf(RecLines[i]) = Len(pp[i])
                 /\ RecLines[i][Len(pp[i]) + 2] = ToString(Get(RecNode(pp[i]), "cycle", 0))

(* C12: a node at SIGIL_ONLY renders as the fixed anchor placeholder line, *)
(* and no part of its seed or of its content appears anywhere in the       *)
(* output of reconstruct_full.                                             *)
C12_SigilPlaceholder ==
    FullDone =>
        \A p \in Paths(recTree) :
            RecLevelAt(p) = SIGIL_ONLY =>
                /\ Reached(p) =>
                      /\ LineIndex(p) <= Len(RecLines)
                      /\ RecLines[LineIndex(p)] =
                            [i \in 1..Len(p) |-> "  "]
                              \o <<"[AC-", ToString(Get(RecNode(p), "cycle", 0)), "] ",
                                   Upper(Get(RecNode(p), "role", "")), ": ",
                                   "[Sigil Anchor - reconstruction required]">>
                /\ \A i \in 1..Len(recOut) :
                      recOut[i] \notin Tokens(Get(RecNode(p), "seed", <<>>))
                                         \cup Tokens(Get(RecNode(p), "content", <<>>))

\* the walk rendered a node at SIGIL_ONLY below the root that holds a seed
\* and content
C12_Witness ==
    /\ FullDone
    /\ \E p \in Paths(recTree) :
          /\ p # <<>>
          /\ RecLevelAt(p) = SIGIL_ONLY
          /\ Reached(p)
          /\ Truthy(Get(RecNode(p), "seed", NoneText))
          /\ Truthy(Get(RecNode(p), "content", NoneText))

(* C13: a node of an unrecognized level does not abort reconstruct_full:   *)
(* the node's line is the fixed placeholder, and every other line of the   *)
(* output is what it is when a well-formed leaf stands in the node's place. *)
C13_BadLevelContained ==
    FullDone =>
        \A p \in Paths(recTree) :
            RecLevelAt(p) \notin {RAW, SUMMARY, SEED, SIGIL_ONLY} =>
                LET other == Split(reconstruct_full(
                                 ReplaceAt(recTree, p, [role |-> "user"])), NEWLINE)
                IN /\ Len(RecLines) = Len(other)
                   /\ \A i \in 1..Len(other) :
                         RecLines[i] # other[i] => (Reached(p) /\ i = LineIndex(p))
                   /\ Reached(p) =>
                         RecLines[LineIndex(p)] = <<"[Unrecognized compression level]">>

\* the walk met a node of an unrecognized level that has a sibling after it
C13_Witness ==
    /\ FullDone
    /\ \E p \in Paths(recTree) :
          /\ p = <<1>>
          /\ RecLevelAt(p) \notin {RAW, SUMMARY, SEED, SIGIL_ONLY}
          /\ Reached(p)
          /\ Len(recTree["children"]) = 2
          /\ Len(RecLines) = 3

ThreadDone == recOp = "thread"

\* the node at path p is tagged with the target cycle
OnThread(p) == Get(RecNode(p), "cycle", 0) = recCycle

(* C14: the cycle-threaded view emits one expanded-seed line for exactly   *)
(* the nodes whose cycle is the target cycle, in pre-order, whatever the   *)
(* cycles of the nodes above them.                                         *)
C14_ThreadEmitsMatching ==
    ThreadDone =>
        LET pp == SelectSeq(PreorderPaths(recTree), OnThread)
        IN recOut = [i \in 1..Len(pp) |->
                        expand_seed(Get(RecNode(pp[i]), "seed", NoneText))]

\* cycles 3, 7, 3 down one branch with target 3: two lines, the second for
\* the node below the cycle-7 node
C14_Witness ==
    /\ ThreadDone
    /\ recCycle = 3
    /\ Paths(recTree) = {<<>>, <<1>>, <<1, 1>>}
    /\ Get(RecNode(<<>>), "cycle", 0) = 3
    /\ Get(RecNode(<<1>>), "cycle", 0) = 7
    /\ Get(RecNode(<<1, 1>>), "cycle", 0) = 3
    /\ Len(recOut) = 2

----------------------------------------------------------------------------
(* Claims about the records collapse_state returns *)

\* the fields of the persisted record
DeclaredFields ==
    {"id", "role", "cycle", "content", "seed", "collapsed", "priority", "children"}

\* every node of the tree given to the last call is in the persisted shape
InputPersisted == \A p \in Paths(InTree) : DeclaredFields \subseteq DOMAIN InNode(p)

(* C15: in every node of a collapse_state result that holds the collapsed *)
(* flag, the flag is true exactly when the node's compression_level is not *)
(* RAW.                                                                    *)
C15_CollapsedFlagIsLevel ==
    Returned =>
        \A p \in OutPaths :
            "collapsed" \in DOMAIN OutNode(p) =>
                (OutNode(p)["collapsed"] <=> (LevelOf(OutNode(p)) # RAW))

(* C16: given a tree in the persisted shape, every node of the result of   *)
(* collapse_state, a blocked node included, holds every declared field:    *)
(* id, role, cycle, content, seed, collapsed, priority and children.       *)
C16_ShapePreserved ==
    (Returned /\ InputPersisted) =>
        \A p \in OutPaths : DeclaredFields \subseteq DOMAIN OutNode(p)

----------------------------------------------------------------------------
(* Claims about the memory tree *)

RECURSIVE MemNodes(_)
\* the nodes of the memory tree below and including n
MemNodes(n) ==
    {n} \cup UNION {MemNodes(n.children[i]) : i \in 1..Len(n.children)}

RECURSIVE to_dict(_)
\* HarmonicNode.to_dict
to_dict(n) ==
    [id |-> n.id, role |-> n.role, cycle |-> n.cycle_alignment,
     content |-> n.raw_content, seed |-> n.structural_seed,
     collapsed |-> n.is_collapsed, priority |-> n.priority,
     children |-> [i \in 1..Len(n.children) |-> to_dict(n.children[i])]]

(* C17: in every state of the memory tree reached by ingest_interaction,   *)
(* and in the record to_dict makes of it, a node that has a seed has its   *)
(* raw content cleared.                                                    *)
C17_SeedExcludesContent ==
    /\ \A n \in MemNodes(root) :
          Truthy(n.structural_seed) => n.raw_content \in {NoneText, <<>>}
    /\ \A p \in Paths(to_dict(root)) :
          LET d == NodeAt(to_dict(root), p)
          IN Truthy(d["seed"]) => d["content"] \in {NoneText, <<>>}

\* the ids of the nodes of the memory tree below and including n
MemIds(n) == {m.id : m \in MemNodes(n)}

(* C18: each ingest_interaction call appends one new user node as the last *)
(* child of the root, with one ai child and nothing below it, both tagged  *)
(* with the given cycle, each with the priority scored from its own text   *)
(* and a seed formed under that priority; the root's own fields and the    *)
(* nodes ingested before, in their order, are unchanged.                   *)
C18_IngestShape ==
    [][ created' # created =>
          LET k == Len(root.children)
              u == root'.children[k + 1]
              a == u.children[1]
          IN /\ Len(root'.children) = k + 1
             /\ SubSeq(root'.children, 1, k) = root.children
             /\ [root' EXCEPT !.children = root.children] = root
             /\ root'.role = "system" /\ root'.cycle_alignment = 1
             /\ u.role = "user" /\ Len(u.children) = 1
             /\ a.role = "ai" /\ a.children = <<>>
             /\ u.cycle_alignment = ingested'[3] /\ a.cycle_alignment = ingested'[3]
             /\ u.raw_content = ingested'[1] /\ a.raw_content = ingested'[2]
             /\ u.priority = evaluate(ingested'[1])
             /\ a.priority = evaluate(ingested'[2])
             /\ u.priority >= 3 <=> u.structural_seed[1] = "[AC-"
             /\ a.priority >= 3 <=> a.structural_seed[1] = "[AC-"
             /\ u.id # a.id /\ {u.id, a.id} \cap MemIds(root) = {} ]_vars

\* two ingestions under different cycles, the second of a user text of
\* priority 3 with an ai text of priority 0
C18_Witness ==
    /\ Len(root.children) = 2
    /\ root.children[1].cycle_alignment # root.children[2].cycle_alignment
    /\ root.children[2].priority = 3
    /\ root.children[2].children[1].priority = 0
    /\ ingested[3] = root.children[2].cycle_alignment

----------------------------------------------------------------------------
(* Claims about the levels across collapse_state calls *)

\* compressed_from, None standing for an absent record
AuditOf(n) == Get(n, "compressed_from", NoneLevel)

(* C19: across collapse_state calls, each result fed back, compressed_from *)
(* is absent while the node's level has not changed and otherwise is the   *)
(* level held immediately before the most recent change, a strictly lower  *)
(* ordinal than the current level. Call by call: a call that changes a     *)
(* node's level leaves the level before it in compressed_from, a call that *)
(* does not leaves compressed_from as it was. Stated for the calls that do *)
(* not lower the node's level.                                             *)
C19_AuditRecord ==
    Returned =>
        \A p \in OutPaths :
            LevelOf(OutNode(p)) >= LevelOf(InNode(p)) =>
                /\ AuditOf(OutNode(p)) # NoneLevel =>
                      AuditOf(OutNode(p)) < LevelOf(OutNode(p))
                /\ LevelOf(OutNode(p)) # LevelOf(InNode(p)) =>
                      AuditOf(OutNode(p)) = LevelOf(InNode(p))
                /\ LevelOf(OutNode(p)) = LevelOf(InNode(p)) =>
                      AuditOf(OutNode(p)) = AuditOf(InNode(p))

\* the level of the node at path p before and after the last call
LevelStep(p) == <<LevelOf(InNode(p)), LevelOf(OutNode(p))>>

(* C20, as claimed: from a tree whose nodes are all at RAW, under any      *)
(* sequence of collapse_state calls, a node's level changes only by        *)
(* RAW -> SEED or RAW -> SIGIL_ONLY, and no node is ever at SUMMARY.       *)
C20_OnlyFromRaw ==
    Returned =>
        \A p \in OutPaths :
            /\ LevelOf(OutNode(p)) # SUMMARY
            /\ LevelStep(p)[1] # LevelStep(p)[2] =>
                  LevelStep(p) \in {<<RAW, SEED>>, <<RAW, SIGIL_ONLY>>}

(* C20, amended: from a tree whose nodes are all at RAW, under any         *)
(* sequence of collapse_state calls, a node's level changes only by        *)
(* RAW -> SEED, RAW -> SIGIL_ONLY or SEED -> SIGIL_ONLY, and no node is    *)
(* ever at SUMMARY.                                                        *)
C20_ForwardTransitions ==
    Returned =>
        \A p \in OutPaths :
            /\ LevelOf(OutNode(p)) # SUMMARY
            /\ LevelOf(InNode(p)) # SUMMARY
            /\ LevelStep(p)[1] # LevelStep(p)[2] =>
                  LevelStep(p) \in {<<RAW, SEED>>, <<RAW, SIGIL_ONLY>>,
                                    <<SEED, SIGIL_ONLY>>}

\* the second call blocked a node the first call had moved from RAW to SEED,
\* and left another node of the tree at SEED
C20_Witness ==
    /\ Returned
    /\ calls = 2
    /\ \E p \in OutPaths : /\ LevelStep(p) = <<SEED, SIGIL_ONLY>>
                           /\ AuditOf(InNode(p)) = RAW
    /\ \E p \in OutPaths : LevelStep(p) = <<SEED, SEED>>

----------------------------------------------------------------------------
(* Claims about the shell's and the interpreter's commands *)

\* the parts of an inject parameter block: split on "||", each stripped
ShellParts(block) ==
    LET parts == Split(block, <<"|", "|">>)
    IN [i \in 1..Len(parts) |-> Strip(parts[i])]

\* a block of three parts whose last part is an integer
WellFormedBlock(block) ==
    Len(ShellParts(block)) = 3 /\ IsInt(ShellParts(block)[3])

(* C21: for an inject command of three parts with an integer cycle, the    *)
(* shell consults the structural gate with (user, cycle, 1, 1) before any  *)
(* mutation: when the gate approves, exactly one interaction is appended   *)
(* under the root and the reply is "Injected safely."; when it rejects,    *)
(* the tree is unchanged and the reply carries the gate's reason.          *)
C21_ShellInjectGated ==
    [][ \A block \in ShellArgs :
          (ShellInject(block) /\ WellFormedBlock(block)) =>
              LET parts == ShellParts(block)
                  cycle == IntOf(parts[3])
                  g == gate_node("user", cycle, 1, 1)
              IN IF g.ok
                 THEN /\ root' = IngestedRoot(root, created, parts[1], parts[2], cycle)
                      /\ Len(root'.children) = Len(root.children) + 1
                      /\ reply' = "[ArcShell] Injected safely."
                 ELSE /\ root' = root
                      /\ reply' = "[Guardian] Blocked: " \o g.reason ]_vars

(* C22: collapse_state returns a node and raises nothing for every record  *)
(* of the persisted shape with missing or null fields, a record whose      *)
(* content and seed are both None included; a missing compression level is *)
(* treated as RAW. Stated for the engines whose gate answers, so that the  *)
(* only possible failure is the record's.                                  *)
C22_MalformedRecovered ==
    (outcome # "init" /\ guardianKind # "ArcGuardian") =>
        /\ Returned
        /\ \A p \in OutPaths :
              "compression_level" \notin DOMAIN InNode(p) =>
                  AuditOf(OutNode(p)) = RAW

----------------------------------------------------------------------------
(* The end-to-end scenario: interactions are ingested, then the record     *)
(* to_dict makes of the memory tree is collapsed by the system's engine    *)

RECURSIVE AllocNode(_, _)
RECURSIVE AllocList(_, _, _)
\* the dict objects of a tree of records: the heap with them added, and the
\* address of the root's dict
AllocNode(h, t) ==
    LET r == AllocList(h, t["children"], <<>>)
    IN [heap |-> Append(r.heap, Put(t, "children", r.ret)), ret |-> Len(r.heap) + 1]
AllocList(h, kids, acc) ==
    IF kids = <<>>
    THEN [heap |-> h, ret |-> acc]
    ELSE LET r == AllocNode(h, Head(kids))
         IN AllocList(r.heap, Tail(kids), Append(acc, r.ret))

\* the heap holding root.to_dict(), its root at address 1
MemoryHeap ==
    LET a == AllocNode(<<>>, to_dict(root))
    IN Compact(a.heap, Live(a.heap, a.ret, 0))

\* texts on both sides of the thresholds of prune_to_seed and collapse_state:
\* empty, short, 50 and 51 characters, and 80 and 120 characters holding the
\* weight-3 sigil
ScenarioTexts ==
    { <<>>, Text(20), Text(50), Text(51),
      <<GEM>> \o Text(79), <<GEM>> \o Text(119) }

ScenarioCycle == 3

\* ingestions go on until the tree is collapsed
ScenarioIngest ==
    \E user_text \in ScenarioTexts, ai_text \in ScenarioTexts :
        /\ outcome = "init"
        /\ Len(root.children) < MaxIngests
        /\ IngestInteraction(user_text, ai_text, ScenarioCycle)

\* collapse_state(root.to_dict()) by the engine ArcMemorySystem constructs
CollapseMemory ==
    /\ outcome = "init"
    /\ Len(root.children) >= 1
    /\ LET r == collapse_state(MemoryHeap, 1, 0, SystemEngineGuardian)
           order == Live(r.heap, 1, r.ret)
       IN /\ heap' = Compact(r.heap, order)
          /\ inRoot' = 1
          /\ outRoot' = IF r.ret = 0 THEN 0 ELSE IndexOf(order, r.ret)
          /\ outcome' = IF r.exc = "none" THEN "returned" ELSE r.exc
          /\ gateLog' = r.log
    /\ callDepth' = 0
    /\ calls' = calls + 1
    /\ UNCHANGED <<guardianKind, gateVars, memoryVars, reconstructVars, sigilVars>>

NextScenario == ScenarioIngest \/ CollapseMemory

SpecScenario == InitMemory /\ [][NextScenario]_vars

\* the characters a seed keeps of the text: what stands between its tag and
\* its ellipsis, a seed without an ellipsis being the text itself
KeptOf(seed) ==
    IF seed # <<>> /\ seed[Len(seed)] = "..."
    THEN SubSeq(seed, 4, Len(seed) - 1)
    ELSE seed

(* C23: after ingesting interactions and collapsing the resulting tree, a  *)
(* node with priority >= 3 and content of at least 80 characters is at     *)
(* SEED with an 80-character snippet in its seed, and a node of priority   *)
(* below 3 whose content has at most 50 characters, empty text included,   *)
(* is at SEED with a seed equal to its raw content.                        *)
C23_IngestThenCollapse ==
    Returned =>
        \A p \in OutPaths :
            LET raw == InNode(p)["content"]
                out == OutNode(p)
            IN /\ (InNode(p)["priority"] >= 3 /\ Len(raw) >= 80) =>
                      /\ LevelOf(out) = SEED
                      /\ KeptOf(out["seed"]) = Prefix(raw, 80)
               /\ (InNode(p)["priority"] < 3 /\ Len(raw) <= 50 /\ p # <<>>) =>
                      /\ LevelOf(out) = SEED
                      /\ out["seed"] = raw

\* the seed collapse_state derives for a record of the content and priority
\* of the memory node n
DerivedSeed(n) ==
    DeriveBranch(Persisted(n.role, n.cycle_alignment, n.raw_content, NoneText,
                           FALSE, n.priority)).d["seed"]

(* C24: a node of priority below 3 whose content is longer than 50         *)
(* characters keeps exactly a 50-character prefix of its content in its    *)
(* seed, whether prune_to_seed formed the seed at ingestion or             *)
(* collapse_state derives it: both keep the same snippet.                  *)
C24_SameSnippetLength ==
    \A n \in MemNodes(root) :
        (n.priority < 3 /\ Len(n.raw_content) > 50) =>
            /\ KeptOf(DerivedSeed(n)) = Prefix(n.raw_content, 50)
            /\ KeptOf(n.structural_seed) = Prefix(n.raw_content, 50)
            /\ Len(KeptOf(n.structural_seed)) = Len(KeptOf(DerivedSeed(n)))

----------------------------------------------------------------------------
(* Claims about the traversals and the scorer *)

(* C25: both reconstruction traversals are read-only: a traversal leaves   *)
(* the tree, every field of every node, as it was, so that a second        *)
(* reconstruct_full of the same tree returns the same text, which is the   *)
(* text of the tree as it stands.                                          *)
C25_TraversalsReadOnly ==
    [][ recCalls' # recCalls =>
          /\ recTree' = recTree
          /\ recOp' = "full" => recOut' = reconstruct_full(recTree')
          /\ (recOp = "full" /\ recOp' = "full") => recOut' = recOut ]_vars

\* a second full reconstruction in a row of a tree whose root is rendered
\* by reconstruct_path and has a child at SEED with a derived seed
C25_Witness ==
    /\ recCalls = 2
    /\ recOp = "full"
    /\ recCycle = 0
    /\ RecLevelAt(<<>>) = RAW
    /\ \E p \in Paths(recTree) :
          /\ p # <<>>
          /\ Reached(p)
          /\ RecLevelAt(p) = SEED
          /\ Get(RecNode(p), "seed", NoneText)[1] = "[AutoSeed AC-"

----------------------------------------------------------------------------
(* The scorer alone: evaluate applied, more than once, to one value        *)

MaxSigilLen == 3
MaxEvaluations == 2

\* the characters of the texts scored: the three sigils and a plain one
SigilAlphabet == {GEM, SPARKLE, BULLET, "a"}

\* the texts of up to MaxSigilLen characters, and None for a non-text value
SigilInputs ==
    UNION {[1..n -> SigilAlphabet] : n \in 0..MaxSigilLen} \cup {NoneText}

InitSigil ==
    /\ sigilText \in SigilInputs
    /\ sigilScores = <<>>
    /\ CollapseIdle
    /\ GateIdle
    /\ MemoryIdle
    /\ ReconstructIdle

\* SigilEngine.evaluate(text)
Evaluate ==
    /\ Len(sigilScores) < MaxEvaluations
    /\ sigilScores' = Append(sigilScores, evaluate(sigilText))
    /\ UNCHANGED <<sigilText, collapseVars, gateVars, memoryVars, reconstructVars>>

NextSigil == Evaluate

SpecSigil == InitSigil /\ [][NextSigil]_vars

\* SIGIL_WEIGHTS
WeightOf(ch) ==
    CASE ch = GEM -> 3
      [] ch = SPARKLE -> 2
      [] ch = BULLET -> 1
      [] OTHER -> 0

RECURSIVE WeightSum(_)
\* the weights of the characters of a text, added up one occurrence at a time
WeightSum(text) ==
    IF text = <<>> THEN 0 ELSE WeightOf(Head(text)) + WeightSum(Tail(text))

(* C26: evaluate(text) is the sum over the three markers of                *)
(* occurrences x weight, is never negative, is 0 for a non-text value, and *)
(* depends on its argument only: the same text gets the same score on      *)
(* every call.                                                             *)
C26_PriorityScore ==
    \A k \in 1..Len(sigilScores) :
        /\ sigilScores[k] >= 0
        /\ sigilText = NoneText => sigilScores[k] = 0
        /\ sigilText # NoneText => sigilScores[k] = WeightSum(sigilText)
        /\ sigilScores[k] = sigilScores[1]

\* a text holding a marker twice and another marker once, scored twice
C26_Witness ==
    /\ Len(sigilScores) = 2
    /\ sigilText = <<GEM, BULLET, GEM>>
    /\ sigilScores[2] = 7

----------------------------------------------------------------------------
(* Claims about the tree collapse_state returns under a gate *)

\* the reason the policy gives for the input node at path p
PolicyReason(p) ==
    gate_node(Get(InNode(p), "role", "unknown"), Get(InNode(p), "cycle", 0),
              Len(Get(InNode(p), "children", <<>>)), callDepth + Len(p)).reason

(* C27: the node returned for an input the gate rejected keeps the input's *)
(* role and cycle, carries an error message embedding the gate's reason,   *)
(* has the seed "[Blocked]", is at SIGIL_ONLY, and has compressed_from     *)
(* equal to the level the input held before the call, RAW when it held     *)
(* none.                                                                   *)
C27_BlockedRecord ==
    Returned =>
        \A p \in OutPaths :
            GateRejected(p) =>
                LET in == InNode(p)
                    out == OutNode(p)
                IN /\ "role" \in DOMAIN in => out["role"] = in["role"]
                   /\ "cycle" \in DOMAIN in => out["cycle"] = in["cycle"]
                   /\ out["error"] = <<"[Guardian] Collapse blocked: ", PolicyReason(p)>>
                   /\ out["seed"] = <<"[Blocked]">>
                   /\ out["compression_level"] = SIGIL_ONLY
                   /\ out["compressed_from"] =
                         IF "compression_level" \in DOMAIN in
                         THEN in["compression_level"] ELSE RAW

\* the second call rejected, below the root, a node the first call had
\* brought to SEED
C27_Witness ==
    /\ Returned
    /\ calls = 2
    /\ \E p \in OutPaths :
          /\ p # <<>>
          /\ GateRejected(p)
          /\ LevelOf(InNode(p)) = SEED
          /\ OutNode(p)["compressed_from"] = SEED
          /\ OutNode(p)["role"] = "user"

RECURSIVE AddrAt(_, _)
\* the address of the node at path p below the dict at address a
AddrAt(a, p) ==
    IF p = <<>> THEN a ELSE AddrAt(heap[a]["children"][Head(p)], Tail(p))

\* the tree collapse_state returns for the input node at path p when it is
\* called on that node alone, at the depth given
CollapsedAlone(p, depth) ==
    LET r == collapse_state(heap, AddrAt(inRoot, p), depth, guardianKind)
    IN TreeOf(r.heap, r.ret)

(* C28: for a gate-accepted node collapsed at depth d, the result has as   *)
(* many children as the input and its i-th child is the collapse result of *)
(* the input's i-th child at depth d + 1; the gate is asked, for each node *)
(* visited, about that node's own number of children in the input.         *)
C28_ChildOrderAndDepth ==
    Returned =>
        /\ \A p \in OutPaths :
              ~GateRejected(p) =>
                  LET inKids == Get(InNode(p), "children", <<>>)
                      outKids == OutNode(p)["children"]
                  IN /\ Len(outKids) = Len(inKids)
                     /\ \A i \in 1..Len(inKids) :
                           outKids[i] =
                               CollapsedAlone(p \o <<i>>, callDepth + Len(p) + 1)
        /\ \A k \in 1..Len(gateLog) :
              LET p == PreorderPaths(OutTree)[k]
              IN /\ gateLog[k].child_count = Len(Get(InNode(p), "children", <<>>))
                 /\ gateLog[k].depth = callDepth + Len(p)

\* under the gate, an accepted root with two children whose results differ:
\* the first at SEED, the second blocked
C28_Witness ==
    /\ Returned
    /\ guardianKind = "StructuralGate"
    /\ ~GateRejected(<<>>)
    /\ Len(Get(InNode(<<>>), "children", <<>>)) = 2
    /\ ~GateRejected(<<1>>) /\ LevelOf(OutNode(<<1>>)) = SEED
    /\ GateRejected(<<2>>) /\ "error" \in DOMAIN OutNode(<<2>>)
    /\ Len(gateLog) = 3

----------------------------------------------------------------------------
(* The gated engine on trees that cross the gate's ceilings: a root with a *)
(* wide node (as many children as the child-count ceiling allows, or one   *)
(* more) and a chain below it, collapsed at depths next to the depth       *)
(* ceiling, each result fed back                                           *)

MaxChainLen == 3

\* the record of a fresh node, and of a node whose role the gate refuses
FreshNode == Persisted("user", 3, Text(3), NoneText, FALSE, 0)
IntruderNode == Persisted("intruder", 3, Text(3), NoneText, FALSE, 0)

\* the numbers of children of the wide node
WideCounts == {0, MAX_CHILDREN, MAX_CHILDREN + 1}

\* node 1 is the root, node 2 the wide node with its k children after it,
\* then a chain of n nodes hangs under the root
CeilingHeap(k, n, wideKind) ==
    LET total == 2 + k + n
        par == [i \in 2..total |->
                   IF i = 2 THEN 1
                   ELSE IF i <= 2 + k THEN 2
                   ELSE IF i = 3 + k THEN 1
                   ELSE i - 1]
        kinds == [i \in 1..total |-> IF i = 2 THEN wideKind ELSE FreshNode]
    IN Layout(kinds, par, total)

CeilingHeaps ==
    {CeilingHeap(k, n, wideKind) :
        k \in WideCounts, n \in 0..MaxChainLen, wideKind \in {FreshNode, IntruderNode}}

\* the depth arguments: the root at, below and past the depth ceiling
CeilingDepths == {0, MAX_DEPTH - 1, MAX_DEPTH, MAX_DEPTH + 1}

InitCeilings ==
    /\ heap \in CeilingHeaps
    /\ guardianKind = "StructuralGate"
    /\ inRoot = 1
    /\ outRoot = 0
    /\ callDepth = 0
    /\ outcome = "init"
    /\ calls = 0
    /\ gateLog = <<>>
    /\ GateIdle
    /\ MemoryIdle
    /\ ReconstructIdle
    /\ SigilIdle

NextCeilings == \E depth \in CeilingDepths : CollapseState(depth)

SpecCeilings == InitCeilings /\ [][NextCeilings]_vars

\* a blocked node: the record returned for a rejected input
IsBlocked(n) == "error" \in DOMAIN n

(* C29: with a gate bound, in the tree collapse_state(root, d) returns     *)
(* (the claim's d is 0), every node that is not a blocked node has a       *)
(* permitted role, a child count within the ceiling and a depth, counted   *)
(* from d, within the ceiling; every blocked node is a leaf; so no node    *)
(* lies deeper than the depth ceiling plus one and no accepted node has    *)
(* more children than the child-count ceiling.                             *)
C29_ResultWithinCeilings ==
    (Returned /\ guardianKind = "StructuralGate") =>
        \A p \in OutPaths :
            LET out == OutNode(p)
            IN /\ ~IsBlocked(out) =>
                     /\ out["role"] \in {"user", "ai", "system"}
                     /\ Len(out["children"]) <= 20
                     /\ Len(out["children"]) = Len(InNode(p)["children"])
                     /\ callDepth + Len(p) <= 40
               /\ IsBlocked(out) => out["children"] = <<>>
               /\ callDepth + Len(p) <= 40 + 1

\* one call in which the wide node was blocked for its 21 children and the
\* chain was cut at a node one past the depth ceiling, its child dropped
C29_Witness ==
    /\ Returned
    /\ calls = 1
    /\ callDepth = MAX_DEPTH - 1
    /\ Len(OutNode(<<>>)["children"]) = 2
    /\ Len(OutNode(<<2>>)["children"]) = 1
    /\ Len(InNode(<<1>>)["children"]) = MAX_CHILDREN + 1
    /\ IsBlocked(OutNode(<<1>>))
    /\ OutNode(<<1>>)["error"][2] = "Too many children - structural overload."
    /\ ~IsBlocked(OutNode(<<2>>))
    /\ IsBlocked(OutNode(<<2, 1>>))
    /\ OutNode(<<2, 1>>)["error"][2] = "Depth too deep - recursion risk."
    /\ Len(InNode(<<2, 1>>)["children"]) = 1

----------------------------------------------------------------------------
(* arc_guardian.py: input_gate and validate_intent; ac_interpreter.py:     *)
(* parse_intent, the handlers and interpret. In a command text the words   *)
(* the source names (the verbs, the blocked phrases) are one token each.   *)

\* the words of more than one character, with their numbers of characters
WordLen(w) ==
    CASE w \in {"ac", "rm"} -> 2
      [] w \in {"walk", "seed"} -> 4
      [] w \in {"sigil", "bogus", "prune"} -> 5
      [] w \in {"inject", "export", "recall", "thread", "rm -rf"} -> 6
      [] w \in {"summary"} -> 7
      [] w \in {"guardian", "collapse", "shutdown", "SHUTDOWN"} -> 8
      [] w \in {"reconstruct", "system.exit"} -> 11
      [] w \in {"drop database"} -> 13
      [] OTHER -> 1

\* len(text)
CharLen(text) ==
    LET words == {text[i] : i \in 1..Len(text)}
        F[S \in SUBSET words] ==
            IF S = {} THEN 0
            ELSE LET w == CHOOSE x \in S : TRUE
                 IN CountOf(text, w) * WordLen(w) + F[S \ {w}]
    IN F[words]

\* str.lower() of a token
Lower(w) == IF w = "SHUTDOWN" THEN "shutdown" ELSE w

MAX_INPUT == 2000

BlockedPhrases == {"rm -rf", "shutdown", "system.exit", "drop database"}

\* ArcGuardian.input_gate(text), alias gate
input_gate(text) ==
    IF ~IsStr(text) THEN FALSE
    ELSE IF text = <<>> \/ CharLen(text) > MAX_INPUT THEN FALSE
    ELSE IF \E i \in 1..Len(text) : Lower(text[i]) \in BlockedPhrases THEN FALSE
    ELSE TRUE

AllowedIntents ==
    { <<"walk">>, <<"export">>, <<"inject">>, <<"sigil">>, <<"guardian">>,
      <<"reconstruct">>, <<"thread">>, <<"summary">>, <<"collapse">> }

validate_intent_AllowAll(cmd) == TRUE

\* ArcGuardian.validate_intent(cmd)
validate_intent(cmd) == cmd \in AllowedIntents

RECURSIVE SplitMax(_, _, _)
\* s.split(sep, maxsplit)
SplitMax(s, sep, maxsplit) ==
    IF maxsplit > 0 /\ \E i \in 1..Len(s) : IsPrefixAt(s, sep, i)
    THEN LET i == CHOOSE j \in 1..Len(s) :
                     /\ IsPrefixAt(s, sep, j)
                     /\ \A k \in 1..(j - 1) : ~IsPrefixAt(s, sep, k)
         IN <<SubSeq(s, 1, i - 1)>>
              \o SplitMax(SubSeq(s, i + Len(sep), Len(s)), sep, maxsplit - 1)
    ELSE <<s>>

\* ArcInterpreter.parse_intent(text): (cmd, args), (None, None) without a verb
parse_intent(text) ==
    LET parts == SplitMax(text, <<" ">>, 2)
    IN IF Len(parts) < 2
       THEN [cmd |-> NoneText, args |-> NoneText]
       ELSE [cmd |-> Strip(parts[2]),
             args |-> IF Len(parts) >= 3 THEN parts[3] ELSE <<>>]

\* the keys of ArcInterpreter.routes
Routes ==
    { <<"seed">>, <<"prune">>, <<"walk">>, <<"inject">>, <<"recall">>,
      <<"export">>, <<"collapse">>, <<"guardian">>, <<"sigil">> }

RECURSIVE StrOf(_)
\* the str of a sequence of tokens
StrOf(toks) == IF toks = <<>> THEN "" ELSE Head(toks) \o StrOf(Tail(toks))

\* a handler's answer that ingests nothing
Answer(text) == [reply |-> text, ingest |-> FALSE]

\* routes[cmd](args): the exception it raises, or what it returns. The file
\* cmd_walk opens and cmd_export writes is outside the system: ioFails says
\* whether the file operation fails.
Handler(cmd, args, ioFails) ==
    CASE cmd = <<"inject">> -> [exc |-> "none", out |-> CmdInject(args)]
      [] cmd = <<"walk">> ->
            IF ioFails
            THEN [exc |-> "FileNotFoundError", out |-> Answer("")]
            ELSE [exc |-> "none", out |-> Answer("<memory view>")]
      [] cmd = <<"export">> ->
            IF ioFails
            THEN [exc |-> "OSError", out |-> Answer("")]
            ELSE [exc |-> "none", out |-> Answer("[export] Memory saved.")]
      [] cmd = <<"sigil">> ->
            [exc |-> "none",
             out |-> IF Strip(args) = <<>>
                     THEN Answer("[sigil] Provide text: ac sigil <text>")
                     ELSE Answer("[sigil] Priority = " \o ToString(evaluate(args)))]
      [] cmd = <<"guardian">> -> [exc |-> "none", out |-> Answer("<status report>")]
      [] cmd = <<"collapse">> ->
            [exc |-> "none",
             out |-> Answer("[collapse] CollapseEngine is initialized and ready.")]
      [] cmd = <<"seed">> ->
            [exc |-> "none", out |-> Answer("[seed] Not yet directly exposed.")]
      [] cmd = <<"prune">> ->
            [exc |-> "none", out |-> Answer("[prune] Not yet directly exposed.")]
      [] cmd = <<"recall">> ->
            [exc |-> "none",
             out |-> Answer("[recall] Reconstruction is seed-level only for now.")]

GATE_ACCEPTED == "input_gate: accepted"
GATE_REJECTED == "input_gate: rejected"
INTENT_ACCEPTED == "validate_intent: accepted"
INTENT_REJECTED == "validate_intent: rejected"

\* the step logged when the handler of cmd is called
HandlerStep(cmd) == "handler: " \o StrOf(cmd)

\* an answer of interpret with the steps it took
Piped(out, text, steps) ==
    Put(out, "pipeline", [text |-> text, steps |-> steps])

\* ArcInterpreter.interpret(cleaned)
interpret(cleaned, ioFails) ==
    IF ~input_gate(cleaned)
    THEN Piped(Answer("[Guardian] Command blocked for safety."), cleaned,
               <<GATE_REJECTED>>)
    ELSE LET intent == parse_intent(cleaned)
             cmd == intent.cmd
         IN IF cmd = NoneText
            THEN Piped(Answer("[Interpreter] Invalid command structure."), cleaned,
                       <<GATE_ACCEPTED>>)
            ELSE IF ~validate_intent(cmd)
            THEN Piped(Answer("[Guardian] Intent '" \o StrOf(cmd) \o "' is not permitted."),
                       cleaned, <<GATE_ACCEPTED, INTENT_REJECTED>>)
            ELSE IF cmd \notin Routes
            THEN Piped(Answer("[Interpreter] Unknown command '" \o StrOf(cmd) \o "'."),
                       cleaned, <<GATE_ACCEPTED, INTENT_ACCEPTED>>)
            ELSE LET h == Handler(cmd, intent.args, ioFails)
                     steps == <<GATE_ACCEPTED, INTENT_ACCEPTED, HandlerStep(cmd)>>
                 IN IF h.exc # "none"
                    THEN Piped(Answer("[Interpreter Error] " \o h.exc), cleaned, steps)
                    ELSE Piped(h.out, cleaned, steps)

----------------------------------------------------------------------------
(* The interpreter: interpret called on command texts, one after another   *)

\* "ac inject hi|yo|3"
InjectCommand(user, cycle) ==
    <<"ac", " ", "inject", " ">> \o user \o <<"|", "y", "o", "|", cycle>>

\* commands that reach a handler, commands each step of the pipeline turns
\* away (a blocked phrase in either case, an empty text, a text of more than
\* 2000 characters, a value that is no text, a text without a verb, verbs
\* outside the whitelist with and without a route, a whitelisted verb
\* without a route)
InterpreterCommands ==
    { InjectCommand(<<"h", "i">>, "3"),
      InjectCommand(<<"h", "o">>, "7"),
      InjectCommand(<<GEM>>, "3"),
      InjectCommand(<<"h", "i">>, "x"),
      <<"ac", " ", "inject", " ", "h", "i">>,
      InjectCommand(<<"rm -rf">>, "3"),
      InjectCommand(<<"SHUTDOWN">>, "3"),
      InjectCommand([i \in 1..MAX_INPUT |-> "x"], "3"),
      <<>>,
      NoneText,
      <<"ac">>,
      <<"ac", " ", "seed", " ", "x">>,
      <<"ac", " ", "bogus">>,
      <<"ac", " ", "reconstruct">>,
      <<"ac", " ", "walk">>,
      <<"ac", " ", "export">>,
      <<"ac", " ", "sigil", " ", GEM, "a">>,
      <<"ac", " ", "sigil">>,
      <<"ac", " ", "guardian">>,
      <<"ac", " ", "collapse">> }

\* ArcInterpreter.interpret(cleaned)
Interpret(cleaned, ioFails) ==
    LET r == interpret(cleaned, ioFails)
    IN /\ r.ingest => Len(root.children) < MaxIngests
       /\ Injected(r)

NextInterpreter ==
    \E cleaned \in InterpreterCommands, ioFails \in BOOLEAN : Interpret(cleaned, ioFails)

SpecInterpreter == InitMemory /\ [][NextInterpreter]_vars

HandlerSteps == {HandlerStep(cmd) : cmd \in Routes}

\* a handler was called in the last interpret call
HandlerRan(steps) == \E i \in 1..Len(steps) : steps[i] \in HandlerSteps

(* C30: interpret calls a command handler only after the input gate has    *)
(* accepted the text and validate_intent has accepted the parsed verb, in  *)
(* that order; a command turned away at either step reaches no handler and *)
(* leaves the memory tree unchanged; a failure of the file a handler reads *)
(* or writes comes back as an "[Interpreter Error]" reply.                 *)
C30_PipelineOrder ==
    [][ pipeline'.steps # <<>> =>
          LET text == pipeline'.text
              steps == pipeline'.steps
          IN /\ HandlerRan(steps) =>
                   /\ Len(steps) = 3
                   /\ steps[1] = "input_gate: accepted"
                   /\ steps[2] = "validate_intent: accepted"
                   /\ steps[3] \in HandlerSteps
                   /\ text # NoneText /\ text # <<>> /\ Len(text) >= 3
                   /\ \A i \in 1..Len(text) :
                         text[i] \notin {"rm -rf", "shutdown", "SHUTDOWN",
                                         "system.exit", "drop database"}
                   /\ text[3] \in {"walk", "export", "inject", "sigil", "guardian",
                                   "reconstruct", "thread", "summary", "collapse"}
             /\ (\E i \in 1..Len(steps) :
                    steps[i] \in {"input_gate: rejected", "validate_intent: rejected"}) =>
                   ~HandlerRan(steps)
             /\ ~HandlerRan(steps) => (root' = root /\ created' = created)
             /\ (HandlerRan(steps) /\ steps[3] \in {"handler: walk", "handler: export"}) =>
                   reply' \in {"<memory view>", "[export] Memory saved.",
                               "[Interpreter Error] FileNotFoundError",
                               "[Interpreter Error] OSError"} ]_vars

\* an inject command went through both gates to its handler and the tree
\* grew, after an earlier interaction was injected
C30_Witness ==
    /\ pipeline.steps = <<"input_gate: accepted", "validate_intent: accepted",
                          "handler: inject">>
    /\ reply = "[inject] Interaction added."
    /\ Len(root.children) = 2

====
